---------------------------- MODULE Spec2Model ----------------------------
(***************************************************************************)
(* A model of three parts of Ribir's core:                                 *)
(*   - Application::inflate, the work-stack loop that turns a widget       *)
(*     specification into the widget tree   (core/src/application.rs);     *)
(*   - MultiPair, the accumulator of a multi-child parent's children       *)
(*     (core/src/widget_children/multi_child_impl.rs);                     *)
(*   - TapListener::on_tap_times, the n-times-tap recogniser               *)
(*     (core/src/events/pointers.rs).                                      *)
(* Each part has its own specification over the shared variables; the      *)
(* variables of the other parts stay at their initial values.              *)
(***************************************************************************)
EXTENDS Integers, Sequences, FiniteSets, TLC

VARIABLES
  pc,            \* where the modelled call stands: "new", "loop", "done", "panic", ...
  w,             \* the widget specification handed to Application::inflate
  stack,         \* inflate's work stack (Vec<StackElem>), top = last element
  node_id,       \* inflate's current parent (Option<NodeId>)
  widget_tree,   \* Application.widget_tree (Option<Tree<Widget>>)
  trees_built,   \* number of trees TreeBuilder has built so far
  panic,         \* the message of the expect/unwrap that failed, "" if none
  pops,          \* log: the specification position of every widget popped, in order
  calls,         \* log: every build()/split() call made, in order
  made,          \* log: made[i] is the specification position whose pop created node i
  pair,          \* the MultiPair being built (Option<MultiPair>)
  given_parent,  \* log: the parent given to MultiPair::new
  supplied,      \* log: the children arguments given to new / with_child, in call order
  pipe_now,      \* the collection the reactive source holds after it was asked (Option)
  build_multi_calls,  \* log: how often build_multi() has been called on the source
  f,             \* the closure into_widget_strict made, holding the pair (Option)
  composed,      \* log: the (parent, children) handed to directly_compose_children
  added,         \* log: the add_widget calls that returned, in call order
  times,         \* on_tap_times' `times` argument
  tap_info,      \* the closure's captured tap_info (Option<TapInfo>)
  now,           \* the monotonic clock Instant reads, in milliseconds
  count,         \* how often the handler given to on_tap_times has been invoked
  taps,          \* log: the number of taps the closure has been called with
  fired,         \* log: the numbers of the taps on which the handler was invoked
  first_tap,     \* log: time, pointer type and buttons of the first tap (Option)
  last_tap,      \* log: time, pointer type and buttons of the latest tap (Option)
  rapid,         \* log: every tap so far had the first tap's pointer type and
                 \*      buttons and came less than DUR after the first tap
  spaced         \* log: every tap so far came DUR or more after the tap before it

inflateVars == <<pc, w, stack, node_id, widget_tree, trees_built, panic, pops, calls, made>>
pairVars == <<pair, given_parent, supplied, pipe_now, build_multi_calls, f, composed>>
tapVars == <<times, tap_info, now, count, taps, fired, first_tap, last_tap, rapid, spaced>>
vars == <<inflateVars, pairVars, tapVars, added>>

-----------------------------------------------------------------------------
(* Option<T>: None is the empty sequence, Some(x) the one-element sequence. *)
None == <<>>
Some(x) == <<x>>
IsSome(o) == o # <<>>
Unwrap(o) == o[1]

Count(s, x) == Cardinality({i \in 1..Len(s) : s[i] = x})

-----------------------------------------------------------------------------
(***************************************************************************)
(* The Widget enum: Combination, Render, SingleChild, MultiChild.          *)
(* A Combination owns a builder; "Fixed" builders return a stored widget,  *)
(* "EmbedPost" is the recursive builder of the repository's test.          *)
(***************************************************************************)
Render(r) == [kind |-> "Render", render |-> r]
SingleChild(r, c) == [kind |-> "SingleChild", render |-> r, child |-> c]
MultiChild(r, cs) == [kind |-> "MultiChild", render |-> r, children |-> cs]
Combination(b) == [kind |-> "Combination", builder |-> "Fixed", build |-> b]

Leaf == Render(<<"Leaf">>)
Box(c) == SingleChild(<<"RenderBox">>, c)
Text(s) == Render(<<"Text", s>>)
Row(cs) == MultiChild(<<"RenderRow">>, cs)
Column(cs) == MultiChild(<<"RenderColumn">>, cs)

EmbedLevel == 3
EmbedPost(level) ==
  [kind |-> "Combination", builder |-> "EmbedPost", title |-> "Simple demo",
   author |-> "Adoo", content |-> "Recursive 3 times", level |-> level]

(* EmbedPost::build *)
EmbedPostBuild(p) ==
  LET texts == <<Text(p.title), Text(p.author), Text(p.content)>>
  IN  Row(IF p.level > 0 THEN Append(texts, [p EXCEPT !.level = @ - 1]) ELSE texts)

(* CombinationWidget::build, SingleChildWidget::split, MultiChildWidget::split *)
Build(c) == IF c.builder = "EmbedPost" THEN EmbedPostBuild(c) ELSE c.build
SplitSingle(s) == [render |-> s.render, child |-> s.child]
SplitMulti(m) == [render |-> m.render, children |-> m.children]

-----------------------------------------------------------------------------
(***************************************************************************)
(* slab_tree as Application uses it: a tree is its id, its root and its    *)
(* nodes by index; a NodeId names a tree and an index in it.               *)
(***************************************************************************)
NodeId(t, i) == [tree_id |-> t, index |-> i]

TreeWithRoot(t, x) ==
  [tree_id |-> t, root_id |-> NodeId(t, 1),
   nodes |-> << [data |-> x, parent |-> None, children |-> <<>>] >>]

HasNode(tree, id) == id.tree_id = tree.tree_id /\ id.index \in 1..Len(tree.nodes)

(* A prepend that puts the new node after the children already there. *)
Prepend_appends(tree, id, x) ==
  LET new == NodeId(tree.tree_id, Len(tree.nodes) + 1)
  IN  [tree EXCEPT !.nodes =
         Append([@ EXCEPT ![id.index].children = @ \o <<new>>],
                [data |-> x, parent |-> Some(id), children |-> <<>>])]

(* NodeMut::prepend: the new node becomes the first child of `id`. *)
Prepend(tree, id, x) ==
  LET new == NodeId(tree.tree_id, Len(tree.nodes) + 1)
  IN  [tree EXCEPT !.nodes =
         Append([@ EXCEPT ![id.index].children = <<new>> \o @],
                [data |-> x, parent |-> Some(id), children |-> <<>>])]

-----------------------------------------------------------------------------
(* StackElem *)
ElemWidget(x, path) == [tag |-> "Widget", widget |-> x, path |-> path]
ElemNodeID(id) == [tag |-> "NodeID", id |-> id]

RECURSIVE PushAll(_, _, _, _)
(* children.into_iter().for_each(|w| stack.push(StackElem::Widget(w))) *)
PushAll(stk, children, path, i) ==
  IF i > Len(children) THEN stk
  ELSE PushAll(Append(stk, ElemWidget(children[i], Append(path, i))), children, path, i + 1)

(* inflate_widget with the Combination arm returning what build() gave *)
(* instead of the Combination.                                          *)
inflate_widget_stores_built(widget, path, stk) ==
  CASE widget.kind = "Combination" ->
         [node |-> Build(widget),
          stack |-> Append(stk, ElemWidget(Build(widget), Append(path, 1))),
          calls |-> << <<"build", path>> >>]
    [] widget.kind = "Render" ->
         [node |-> widget, stack |-> stk, calls |-> <<>>]
    [] widget.kind = "SingleChild" ->
         [node |-> Render(SplitSingle(widget).render),
          stack |-> Append(stk, ElemWidget(SplitSingle(widget).child, Append(path, 1))),
          calls |-> << <<"split", path>> >>]
    [] widget.kind = "MultiChild" ->
         [node |-> Render(SplitMulti(widget).render),
          stack |-> PushAll(stk, SplitMulti(widget).children, path, 1),
          calls |-> << <<"split", path>> >>]

(* inflate_widget with the SingleChild arm forgetting to push the child. *)
inflate_widget_drops_child(widget, path, stk) ==
  CASE widget.kind = "Combination" ->
         [node |-> widget,
          stack |-> Append(stk, ElemWidget(Build(widget), Append(path, 1))),
          calls |-> << <<"build", path>> >>]
    [] widget.kind = "Render" ->
         [node |-> widget, stack |-> stk, calls |-> <<>>]
    [] widget.kind = "SingleChild" ->
         [node |-> Render(SplitSingle(widget).render),
          stack |-> stk,
          calls |-> << <<"split", path>> >>]
    [] widget.kind = "MultiChild" ->
         [node |-> Render(SplitMulti(widget).render),
          stack |-> PushAll(stk, SplitMulti(widget).children, path, 1),
          calls |-> << <<"split", path>> >>]

(* inflate_widget with the Combination arm calling build() a second time *)
(* for the widget it returns.                                             *)
inflate_widget_builds_twice(widget, path, stk) ==
  CASE widget.kind = "Combination" ->
         [node |-> Build(widget),
          stack |-> Append(stk, ElemWidget(Build(widget), Append(path, 1))),
          calls |-> << <<"build", path>>, <<"build", path>> >>]
    [] widget.kind = "Render" ->
         [node |-> widget, stack |-> stk, calls |-> <<>>]
    [] widget.kind = "SingleChild" ->
         [node |-> Render(SplitSingle(widget).render),
          stack |-> Append(stk, ElemWidget(SplitSingle(widget).child, Append(path, 1))),
          calls |-> << <<"split", path>> >>]
    [] widget.kind = "MultiChild" ->
         [node |-> Render(SplitMulti(widget).render),
          stack |-> PushAll(stk, SplitMulti(widget).children, path, 1),
          calls |-> << <<"split", path>> >>]

(***************************************************************************)
(* inflate_widget: the widget to store, the stack with the sub widgets     *)
(* pushed, and the build/split calls made.  `path` is the position of      *)
(* `widget` in the specification; it stands for the identity of the owned  *)
(* value.                                                                  *)
(***************************************************************************)
inflate_widget(widget, path, stk) ==
  CASE widget.kind = "Combination" ->
         LET c == Build(widget)
         IN  [node |-> widget,
              stack |-> Append(stk, ElemWidget(c, Append(path, 1))),
              calls |-> << <<"build", path>> >>]
    [] widget.kind = "Render" ->
         [node |-> widget, stack |-> stk, calls |-> <<>>]
    [] widget.kind = "SingleChild" ->
         LET s == SplitSingle(widget)
         IN  [node |-> Render(s.render),
              stack |-> Append(stk, ElemWidget(s.child, Append(path, 1))),
              calls |-> << <<"split", path>> >>]
    [] widget.kind = "MultiChild" ->
         LET s == SplitMulti(widget)
         IN  [node |-> Render(s.render),
              stack |-> PushAll(stk, s.children, path, 1),
              calls |-> << <<"split", path>> >>]

(* add_widget putting every later widget under the root. *)
add_widget_under_root(tree, built, id, x) ==
  IF IsSome(id)
  THEN IF ~IsSome(tree)
       THEN [widget_tree |-> tree, new_id |-> None, trees_built |-> built,
             panic |-> "root have to exist in logic"]
       ELSE IF ~HasNode(Unwrap(tree), Unwrap(id))
       THEN [widget_tree |-> tree, new_id |-> None, trees_built |-> built,
             panic |-> "node have to exist in logic"]
       ELSE [widget_tree |-> Some(Prepend(Unwrap(tree), Unwrap(tree).root_id, x)),
             new_id |-> Some(NodeId(Unwrap(tree).tree_id, Len(Unwrap(tree).nodes) + 1)),
             trees_built |-> built, panic |-> ""]
  ELSE [widget_tree |-> Some(TreeWithRoot(built + 1, x)),
        new_id |-> Some(NodeId(built + 1, 1)),
        trees_built |-> built + 1, panic |-> ""]

(***************************************************************************)
(* Application::add_widget: the tree after the call, the new node's id,    *)
(* the number of trees built, and the failed expect's message, if any.     *)
(***************************************************************************)
add_widget(tree, built, id, x) ==
  IF IsSome(id)
  THEN IF ~IsSome(tree)
       THEN [widget_tree |-> tree, new_id |-> None, trees_built |-> built,
             panic |-> "root have to exist in logic"]
       ELSE IF ~HasNode(Unwrap(tree), Unwrap(id))
       THEN [widget_tree |-> tree, new_id |-> None, trees_built |-> built,
             panic |-> "node have to exist in logic"]
       ELSE [widget_tree |-> Some(Prepend(Unwrap(tree), Unwrap(id), x)),
             new_id |-> Some(NodeId(Unwrap(tree).tree_id, Len(Unwrap(tree).nodes) + 1)),
             trees_built |-> built, panic |-> ""]
  ELSE [widget_tree |-> Some(TreeWithRoot(built + 1, x)),
        new_id |-> Some(NodeId(built + 1, 1)),
        trees_built |-> built + 1, panic |-> ""]

(* The loop's exit test off by one: it leaves with one element pending. *)
AfterIteration_early(stk) == IF Len(stk) <= 1 THEN "done" ELSE "loop"

(* A loop without its exit test: it goes round again on an empty stack. *)
AfterIteration_never(stk) == "loop"

(* if stack.is_empty() { break; } *)
AfterIteration(stk) == IF stk = <<>> THEN "done" ELSE "loop"

(***************************************************************************)
(* An iteration that pops a NodeID marker without taking it as the parent. *)
(***************************************************************************)
LoopIteration_forgets_parent(s) ==
  IF s.stack = <<>>
  THEN [s EXCEPT !.pc = "panic", !.panic = "called Option::unwrap() on a None value"]
  ELSE
  LET elem == s.stack[Len(s.stack)]
      rest == SubSeq(s.stack, 1, Len(s.stack) - 1)
  IN  IF elem.tag = "NodeID"
      THEN [s EXCEPT !.stack = rest, !.pc = AfterIteration(rest)]
      ELSE
      LET r == inflate_widget(elem.widget, elem.path, rest)
          a == add_widget(s.widget_tree, s.trees_built, s.node_id, r.node)
          log == [s EXCEPT !.pops = Append(@, elem.path), !.calls = @ \o r.calls]
      IN  IF a.panic # ""
          THEN [log EXCEPT !.stack = r.stack, !.pc = "panic", !.panic = a.panic]
          ELSE [log EXCEPT !.stack = Append(r.stack, ElemNodeID(Unwrap(a.new_id))),
                           !.widget_tree = a.widget_tree,
                           !.trees_built = a.trees_built,
                           !.made = IF a.trees_built = s.trees_built
                                    THEN Append(@, elem.path) ELSE <<elem.path>>,
                           !.pc = AfterIteration(
                                    Append(r.stack, ElemNodeID(Unwrap(a.new_id))))]

(***************************************************************************)
(* An iteration that pushes the new node's marker below the children that  *)
(* inflate_widget pushed.                                                  *)
(***************************************************************************)
LoopIteration_marker_below(s) ==
  IF s.stack = <<>>
  THEN [s EXCEPT !.pc = "panic", !.panic = "called Option::unwrap() on a None value"]
  ELSE
  LET elem == s.stack[Len(s.stack)]
      rest == SubSeq(s.stack, 1, Len(s.stack) - 1)
  IN  IF elem.tag = "NodeID"
      THEN [s EXCEPT !.node_id = Some(elem.id), !.stack = rest,
                     !.pc = AfterIteration(rest)]
      ELSE
      LET r == inflate_widget(elem.widget, elem.path, rest)
          a == add_widget(s.widget_tree, s.trees_built, s.node_id, r.node)
          log == [s EXCEPT !.pops = Append(@, elem.path), !.calls = @ \o r.calls]
          below == rest \o <<ElemNodeID(Unwrap(a.new_id))>>
                     \o SubSeq(r.stack, Len(rest) + 1, Len(r.stack))
      IN  IF a.panic # ""
          THEN [log EXCEPT !.stack = r.stack, !.pc = "panic", !.panic = a.panic]
          ELSE [log EXCEPT !.stack = below,
                           !.widget_tree = a.widget_tree,
                           !.trees_built = a.trees_built,
                           !.made = IF a.trees_built = s.trees_built
                                    THEN Append(@, elem.path) ELSE <<elem.path>>,
                           !.pc = AfterIteration(below)]

(***************************************************************************)
(* One iteration of inflate's loop, as a function of inflate's state.      *)
(***************************************************************************)
LoopIteration(s) ==
  IF s.stack = <<>>
  THEN [s EXCEPT !.pc = "panic", !.panic = "called Option::unwrap() on a None value"]
  ELSE
  LET elem == s.stack[Len(s.stack)]
      rest == SubSeq(s.stack, 1, Len(s.stack) - 1)
  IN  IF elem.tag = "NodeID"
      THEN [s EXCEPT !.node_id = Some(elem.id), !.stack = rest,
                     !.pc = AfterIteration(rest)]
      ELSE
      LET r == inflate_widget(elem.widget, elem.path, rest)
          a == add_widget(s.widget_tree, s.trees_built, s.node_id, r.node)
          log == [s EXCEPT !.pops = Append(@, elem.path), !.calls = @ \o r.calls]
      IN  IF a.panic # ""
          THEN [log EXCEPT !.stack = r.stack, !.pc = "panic", !.panic = a.panic]
          ELSE [log EXCEPT !.stack = Append(r.stack, ElemNodeID(Unwrap(a.new_id))),
                           !.widget_tree = a.widget_tree,
                           !.trees_built = a.trees_built,
                           !.made = IF a.trees_built = s.trees_built
                                    THEN Append(@, elem.path) ELSE <<elem.path>>,
                           !.pc = AfterIteration(
                                    Append(r.stack, ElemNodeID(Unwrap(a.new_id))))]

InflateState ==
  [pc |-> pc, stack |-> stack, node_id |-> node_id, widget_tree |-> widget_tree,
   trees_built |-> trees_built, panic |-> panic, pops |-> pops, calls |-> calls,
   made |-> made]

SetInflateState(s) ==
  /\ pc' = s.pc
  /\ stack' = s.stack
  /\ node_id' = s.node_id
  /\ widget_tree' = s.widget_tree
  /\ trees_built' = s.trees_built
  /\ panic' = s.panic
  /\ pops' = s.pops
  /\ calls' = s.calls
  /\ made' = s.made

(* The state inflate starts its loop in: the stack holds the root widget. *)
InflateEntry(s, x) ==
  [s EXCEPT !.pc = "loop", !.stack = <<ElemWidget(x, <<>>)>>, !.node_id = None]

-----------------------------------------------------------------------------
(***************************************************************************)
(* The widget specifications inflate is run on: every specification of at  *)
(* most MaxNodes widgets, and the test's EmbedPost of level EmbedLevel.    *)
(***************************************************************************)
MaxNodes == 5

RECURSIVE TreesOfSize(_), ForestsOfSize(_)
TreesOfSize(n) ==
  IF n = 1 THEN {Leaf, Row(<<>>)}
  ELSE {Combination(t) : t \in TreesOfSize(n - 1)}
       \cup {Box(t) : t \in TreesOfSize(n - 1)}
       \cup {Row(cs) : cs \in ForestsOfSize(n - 1)}
ForestsOfSize(m) ==
  IF m = 0 THEN {<<>>}
  ELSE UNION {{<<t>> \o cs : t \in TreesOfSize(k), cs \in ForestsOfSize(m - k)} : k \in 1..m}

Inputs == UNION {TreesOfSize(n) : n \in 1..MaxNodes} \cup {EmbedPost(EmbedLevel)}

-----------------------------------------------------------------------------
(***************************************************************************)
(* MultiPair.  A children argument is one Widget ("widget", the            *)
(* IntoChildMulti<0, 0> impl), an iterable of widget-convertible values    *)
(* ("iter", the IntoChildMulti<1, M> impl) or a reactive source ("pipe",   *)
(* the IntoChildMulti<2, M> impl) with the collection it holds when asked. *)
(***************************************************************************)
MaxLen == 2      \* the longest iterable handed to new / with_child
MaxCalls == 3    \* new, then at most MaxCalls - 1 calls of with_child

(* The author's values and their conversion to Widget (From<Text>, From<Row>). *)
Values == {"a", "b"}
IntoWidget(v) ==
  IF v = "Row" THEN Row(<<>>) ELSE IF v = "Column" THEN Column(<<>>) ELSE Text(v)

ArgWidget(x) == [shape |-> "widget", widget |-> x]
ArgIter(items) == [shape |-> "iter", items |-> items]
ArgPipe(value) == [shape |-> "pipe", value |-> value]

(* The collections an iterable or a reactive source can hold. *)
Collections == UNION {[1..n -> Values] : n \in 0..MaxLen}

ChildArgs ==
  {ArgWidget(IntoWidget(v)) : v \in Values}
    \cup {ArgIter(items) : items \in Collections}

(* The source as a children argument, for each collection it may hold now. *)
PipeArgs == {ArgPipe(value) : value \in Collections}

(* InnerPipe::build_multi: the source's current collection, as widgets. *)
build_multi(pipe) == [i \in 1..Len(pipe.value) |-> IntoWidget(pipe.value[i])]

(* The pipe impl asking the source twice and chaining both answers. *)
pipe_into_child_multi_twice(pipe) ==
  [yielded |-> build_multi(pipe) \o build_multi(pipe), calls |-> 2]

(* IntoChildMulti<2, M>::into_child_multi: what is yielded, and the number *)
(* of build_multi() calls made.                                            *)
pipe_into_child_multi(pipe) == [yielded |-> build_multi(pipe), calls |-> 1]

(* IntoChildMulti::into_child_multi: the widgets the iterator yields. *)
(* into_child_multi yielding an iterable's widgets last to first. *)
into_child_multi_reversed(arg) ==
  CASE arg.shape = "widget" -> <<arg.widget>>
    [] arg.shape = "iter" ->
         [i \in 1..Len(arg.items) |-> IntoWidget(arg.items[Len(arg.items) + 1 - i])]
    [] arg.shape = "pipe" -> pipe_into_child_multi(arg).yielded

(* IntoChildMulti::into_child_multi, by the shape of the argument. *)
into_child_multi(arg) ==
  CASE arg.shape = "widget" -> <<arg.widget>>
    [] arg.shape = "iter" -> [i \in 1..Len(arg.items) |-> IntoWidget(arg.items[i])]
    [] arg.shape = "pipe" -> pipe_into_child_multi(arg).yielded

(* The build_multi() calls into_child_multi makes for `arg`. *)
BuildMultiCalls(arg) ==
  IF arg.shape = "pipe" THEN pipe_into_child_multi(arg).calls ELSE 0

RECURSIVE PushEach(_, _, _)
(* for c in child.into_child_multi() { children.push(c); } *)
PushEach(children, yielded, i) ==
  IF i > Len(yielded) THEN children
  ELSE PushEach(Append(children, yielded[i]), yielded, i + 1)

(* MultiPair::new *)
MultiPairNew(parent, children) ==
  [parent |-> IntoWidget(parent), children |-> into_child_multi(children)]

(* MultiPair::with_child putting the new children before the old ones. *)
with_child_prepends(self, child) ==
  [parent |-> self.parent, children |-> into_child_multi(child) \o self.children]

(* MultiPair::with_child building the new pair over the default parent. *)
with_child_reparents(self, child) ==
  [parent |-> IntoWidget("Row"),
   children |-> PushEach(self.children, into_child_multi(child), 1)]

(* MultiPair::with_child *)
with_child(self, child) ==
  [parent |-> self.parent,
   children |-> PushEach(self.children, into_child_multi(child), 1)]

(* into_widget_strict: the closure f, which owns the pair. *)
into_widget_strict(self) == [captured |-> self]

(* Calling f: what parent.directly_compose_children(children) is given. *)
call_f(closure) ==
  [parent |-> closure.captured.parent, children |-> closure.captured.children]

-----------------------------------------------------------------------------
(***************************************************************************)
(* TapListener::on_tap_times.  An event carries a pointer type and the     *)
(* pressed mouse buttons; time is the clock `now`.                         *)
(***************************************************************************)
DUR == 250
MaxTimes == 3    \* the largest `times` tried
MaxTaps == 6     \* the most taps in one run of the model
MaxTime == 500   \* the clock stops here

PointerTypes == {"Mouse", "Touch"}
MouseButtons == {1, 2}            \* PRIMARY = 0b01, SECONDARY = 0b10
Events == [point_type : PointerTypes, mouse_buttons : MouseButtons]
ClockSteps == {50, DUR}

(* Instant::elapsed *)
Elapsed(stamp, t) == t - stamp

(* The closure with the default arm starting the count at 0. *)
tap_closure_starts_at_zero(info, e, n, t) ==
  LET counted ==
        IF /\ IsSome(info)
           /\ Unwrap(info).pointer_type = e.point_type
           /\ Unwrap(info).mouse_btns = e.mouse_buttons
           /\ Unwrap(info).tap_times < n
           /\ Elapsed(Unwrap(info).first_tap_stamp, t) < DUR
        THEN [Unwrap(info) EXCEPT !.tap_times = (@ + 1) % 256]
        ELSE [first_tap_stamp |-> t, tap_times |-> 0,
              pointer_type |-> e.point_type, mouse_btns |-> e.mouse_buttons]
  IN  IF counted.tap_times = n
      THEN [tap_info |-> Some([counted EXCEPT !.tap_times = 0]), handler |-> TRUE]
      ELSE [tap_info |-> Some(counted), handler |-> FALSE]

(* The closure with the time test admitting an elapsed time of exactly DUR. *)
tap_closure_admits_dur(info, e, n, t) ==
  LET counted ==
        IF /\ IsSome(info)
           /\ Unwrap(info).pointer_type = e.point_type
           /\ Unwrap(info).mouse_btns = e.mouse_buttons
           /\ Unwrap(info).tap_times < n
           /\ Elapsed(Unwrap(info).first_tap_stamp, t) <= DUR
        THEN [Unwrap(info) EXCEPT !.tap_times = (@ + 1) % 256]
        ELSE [first_tap_stamp |-> t, tap_times |-> 1,
              pointer_type |-> e.point_type, mouse_btns |-> e.mouse_buttons]
  IN  IF counted.tap_times = n
      THEN [tap_info |-> Some([counted EXCEPT !.tap_times = 0]), handler |-> TRUE]
      ELSE [tap_info |-> Some(counted), handler |-> FALSE]

(***************************************************************************)
(* The closure on_tap_times returns, called with event e at time t: the    *)
(* tap_info it leaves and whether it invoked the handler.  tap_times is a  *)
(* u8.                                                                     *)
(***************************************************************************)
(* The closure counting a tap whatever its pointer type and buttons. *)
tap_closure_any_pointer(info, e, n, t) ==
  LET counted ==
        IF /\ IsSome(info)
           /\ Unwrap(info).tap_times < n
           /\ Elapsed(Unwrap(info).first_tap_stamp, t) < DUR
        THEN [Unwrap(info) EXCEPT !.tap_times = (@ + 1) % 256]
        ELSE [first_tap_stamp |-> t, tap_times |-> 1,
              pointer_type |-> e.point_type, mouse_btns |-> e.mouse_buttons]
  IN  IF counted.tap_times = n
      THEN [tap_info |-> Some([counted EXCEPT !.tap_times = 0]), handler |-> TRUE]
      ELSE [tap_info |-> Some(counted), handler |-> FALSE]

(* The closure registered by on_tap_times. *)
tap_closure(info, e, n, t) ==
  LET counted ==
        IF /\ IsSome(info)
           /\ Unwrap(info).pointer_type = e.point_type
           /\ Unwrap(info).mouse_btns = e.mouse_buttons
           /\ Unwrap(info).tap_times < n
           /\ Elapsed(Unwrap(info).first_tap_stamp, t) < DUR
        THEN [Unwrap(info) EXCEPT !.tap_times = (@ + 1) % 256]
        ELSE [first_tap_stamp |-> t, tap_times |-> 1,
              pointer_type |-> e.point_type, mouse_btns |-> e.mouse_buttons]
  IN  IF counted.tap_times = n
      THEN [tap_info |-> Some([counted EXCEPT !.tap_times = 0]), handler |-> TRUE]
      ELSE [tap_info |-> Some(counted), handler |-> FALSE]

-----------------------------------------------------------------------------
(***************************************************************************)
(* The initial values of each part's variables.                            *)
(***************************************************************************)
InflateNew ==
  /\ pc = "new"
  /\ stack = <<>>
  /\ node_id = None
  /\ widget_tree = None
  /\ trees_built = 0
  /\ panic = ""
  /\ pops = <<>>
  /\ calls = <<>>
  /\ made = <<>>
  /\ added = <<>>

PairNew ==
  /\ pair = None
  /\ supplied = <<>>
  /\ pipe_now = None
  /\ build_multi_calls = 0
  /\ given_parent = ""
  /\ f = None
  /\ composed = <<>>

TapNew ==
  /\ tap_info = None
  /\ now = 0
  /\ count = 0
  /\ taps = 0
  /\ fired = {}
  /\ first_tap = None
  /\ last_tap = None
  /\ rapid = TRUE
  /\ spaced = TRUE

-----------------------------------------------------------------------------
(***************************************************************************)
(* Application::inflate on one widget specification.                       *)
(***************************************************************************)
InitInflate ==
  /\ w \in Inputs
  /\ InflateNew
  /\ PairNew
  /\ times = 1
  /\ TapNew

(* Application::inflate is entered: the stack and the parent are set up. *)
Inflate ==
  /\ pc = "new"
  /\ SetInflateState(InflateEntry(InflateState, w))
  /\ UNCHANGED <<w, pairVars, tapVars, added>>

(* A loop iteration that pops a pending widget. *)
LoopWidget ==
  /\ pc = "loop"
  /\ stack # <<>> => stack[Len(stack)].tag = "Widget"
  /\ SetInflateState(LoopIteration(InflateState))
  /\ UNCHANGED <<w, pairVars, tapVars, added>>

(* A loop iteration that pops a NodeID marker. *)
LoopNodeID ==
  /\ pc = "loop"
  /\ stack # <<>>
  /\ stack[Len(stack)].tag = "NodeID"
  /\ SetInflateState(LoopIteration(InflateState))
  /\ UNCHANGED <<w, pairVars, tapVars, added>>

NextInflate == Inflate \/ LoopWidget \/ LoopNodeID

SpecInflate == InitInflate /\ [][NextInflate]_vars

(* inflate runs to its end without waiting for anything: every iteration *)
(* that can run does.                                                     *)
FairSpecInflate == SpecInflate /\ WF_vars(NextInflate)

-----------------------------------------------------------------------------
(***************************************************************************)
(* Application::add_widget called on its own: any sequence of up to        *)
(* MaxAdds calls on a new Application, with no parent (AddRoot) or under   *)
(* any node id handed out so far (AddChild), also ids of a replaced tree.  *)
(***************************************************************************)
MaxAdds == 4

Payloads == {Text("a"), Text("b")}

(* The node ids add_widget may have returned so far. *)
KnownIds == {NodeId(t, i) : t \in 1..trees_built, i \in 1..MaxAdds}

InitAdd ==
  /\ w = Leaf
  /\ InflateNew
  /\ PairNew
  /\ times = 1
  /\ TapNew

AddWidget(id, x) ==
  LET r == add_widget(widget_tree, trees_built, id, x)
      call == [id |-> id, w |-> x, new_id |-> r.new_id]
  IN  /\ panic = ""
      /\ Len(added) < MaxAdds
      /\ widget_tree' = r.widget_tree
      /\ trees_built' = r.trees_built
      /\ panic' = r.panic
      /\ added' = IF r.panic # "" THEN added ELSE Append(added, call)
      /\ UNCHANGED <<pc, w, stack, node_id, pops, calls, made, pairVars, tapVars>>

AddRoot == \E x \in Payloads : AddWidget(None, x)

AddChild == \E id \in KnownIds, x \in Payloads : AddWidget(Some(id), x)

NextAdd == AddRoot \/ AddChild

SpecAdd == InitAdd /\ [][NextAdd]_vars

-----------------------------------------------------------------------------
(***************************************************************************)
(* Building one MultiPair: new, then with_child calls.                     *)
(***************************************************************************)
InitPair ==
  /\ w = Leaf
  /\ InflateNew
  /\ PairNew
  /\ times = 1
  /\ TapNew

(* MultiPair::new(parent, c) with c drawn from `args`. *)
NewWith(parent, args) ==
  /\ pair = None
  /\ supplied = <<>>
  /\ composed = <<>>
  /\ f = None
  /\ \E c \in args :
       /\ pair' = Some(MultiPairNew(parent, c))
       /\ given_parent' = parent
       /\ supplied' = <<c>>
       /\ pipe_now' = IF c.shape = "pipe" THEN Some(c.value) ELSE pipe_now
       /\ build_multi_calls' = build_multi_calls + BuildMultiCalls(c)
  /\ UNCHANGED <<inflateVars, tapVars, composed, f, added>>

(* pair.with_child(c) with c drawn from `args`, up to `max` arguments. *)
WithChildWith(args, max) ==
  /\ IsSome(pair)
  /\ Len(supplied) < max
  /\ \E c \in args :
       /\ pair' = Some(with_child(Unwrap(pair), c))
       /\ supplied' = Append(supplied, c)
       /\ pipe_now' = IF c.shape = "pipe" THEN Some(c.value) ELSE pipe_now
       /\ build_multi_calls' = build_multi_calls + BuildMultiCalls(c)
  /\ UNCHANGED <<inflateVars, tapVars, given_parent, composed, f, added>>

New == NewWith("Row", ChildArgs)

WithChild == WithChildWith(ChildArgs, MaxCalls)

NextPair == New \/ WithChild

SpecPair == InitPair /\ [][NextPair]_vars

-----------------------------------------------------------------------------
(***************************************************************************)
(* Building one MultiPair with a reactive source among the arguments.  The *)
(* source is moved into the call it is passed to, so it is passed once;    *)
(* afterwards it may hold other collections.                               *)
(***************************************************************************)
MaxPipeCalls == 2

Passable == ChildArgs \cup (IF IsSome(pipe_now) THEN {} ELSE PipeArgs)

NewPipe == NewWith("Row", Passable)

WithChildPipe == WithChildWith(Passable, MaxPipeCalls)

(* The source, already asked, later holds another collection. *)
Emit ==
  /\ IsSome(pipe_now)
  /\ \E value \in Collections :
       /\ value # Unwrap(pipe_now)
       /\ pipe_now' = Some(value)
  /\ UNCHANGED <<inflateVars, tapVars, pair, given_parent, supplied, build_multi_calls, composed, f, added>>

NextPipe == NewPipe \/ WithChildPipe \/ Emit

SpecPipe == InitPair /\ [][NextPipe]_vars

-----------------------------------------------------------------------------
(***************************************************************************)
(* A MultiPair built over either parent and then turned into a widget:     *)
(* into_widget_strict moves the pair into the closure f, and building the  *)
(* widget calls f, which hands parent and children over.                   *)
(***************************************************************************)
Parents == {"Row", "Column"}

NewOver == \E parent \in Parents : NewWith(parent, ChildArgs)

IntoWidgetStrict ==
  /\ IsSome(pair)
  /\ f' = Some(into_widget_strict(Unwrap(pair)))
  /\ pair' = None
  /\ UNCHANGED <<inflateVars, tapVars, given_parent, supplied, pipe_now, build_multi_calls, composed, added>>

CallF ==
  /\ IsSome(f)
  /\ composed' = Append(composed, call_f(Unwrap(f)))
  /\ f' = None
  /\ UNCHANGED <<inflateVars, tapVars, pair, given_parent, supplied, pipe_now, build_multi_calls, added>>

NextCompose == NewOver \/ WithChild \/ IntoWidgetStrict \/ CallF

SpecCompose == InitPair /\ [][NextCompose]_vars

-----------------------------------------------------------------------------
(***************************************************************************)
(* One closure made by on_tap_times(times, handler), called tap after tap  *)
(* while the clock advances.                                               *)
(***************************************************************************)
InitTap ==
  /\ w = Leaf
  /\ InflateNew
  /\ PairNew
  /\ times \in 1..MaxTimes
  /\ TapNew

(* Time passes. *)
Tick ==
  /\ \E d \in ClockSteps :
       /\ now + d <= MaxTime
       /\ now' = now + d
  /\ UNCHANGED <<inflateVars, pairVars, added, times, tap_info, count, taps, fired,
                 first_tap, last_tap, rapid, spaced>>

(* The closure is called with a tap event. *)
Tap ==
  /\ taps < MaxTaps
  /\ \E e \in Events :
       LET r == tap_closure(tap_info, e, times, now)
           this == [at |-> now, point_type |-> e.point_type,
                    mouse_buttons |-> e.mouse_buttons]
       IN  /\ tap_info' = r.tap_info
           /\ count' = IF r.handler THEN count + 1 ELSE count
           /\ taps' = taps + 1
           /\ fired' = IF r.handler THEN fired \cup {taps + 1} ELSE fired
           /\ first_tap' = IF IsSome(first_tap) THEN first_tap ELSE Some(this)
           /\ last_tap' = Some(this)
           /\ rapid' = (/\ rapid
                        /\ IsSome(first_tap) =>
                             /\ Unwrap(first_tap).point_type = e.point_type
                             /\ Unwrap(first_tap).mouse_buttons = e.mouse_buttons
                             /\ now - Unwrap(first_tap).at < DUR)
           /\ spaced' = (/\ spaced
                         /\ IsSome(last_tap) => now - Unwrap(last_tap).at >= DUR)
  /\ UNCHANGED <<inflateVars, pairVars, added, times, now>>

NextTap == Tick \/ Tap

SpecTap == InitTap /\ [][NextTap]_vars

-----------------------------------------------------------------------------
(***************************************************************************)
(* Reading a specification and the tree built from it.                     *)
(***************************************************************************)
(* The widgets a widget hands to inflate_widget's stack, in push order. *)
Sub(x) ==
  CASE x.kind = "Combination" -> <<Build(x)>>
    [] x.kind = "Render" -> <<>>
    [] x.kind = "SingleChild" -> <<SplitSingle(x).child>>
    [] x.kind = "MultiChild" -> SplitMulti(x).children

RECURSIVE WidgetAt(_, _)
WidgetAt(x, path) ==
  IF path = <<>> THEN x ELSE WidgetAt(Sub(x)[Head(path)], Tail(path))

RECURSIVE Paths(_)
Paths(x) ==
  {<<>>} \cup UNION {{<<i>> \o q : q \in Paths(Sub(x)[i])} : i \in 1..Len(Sub(x))}

(* The run of inflate on x from a new Application, to its end. *)
RECURSIVE RunLoop(_)
RunLoop(s) == IF s.pc = "loop" THEN RunLoop(LoopIteration(s)) ELSE s

NewApplication ==
  [pc |-> "new", stack |-> <<>>, node_id |-> None, widget_tree |-> None,
   trees_built |-> 0, panic |-> "", pops |-> <<>>, calls |-> <<>>, made |-> <<>>]

InflateRun(x) == RunLoop(InflateEntry(NewApplication, x))

Nodes == IF IsSome(widget_tree) THEN Unwrap(widget_tree).nodes ELSE <<>>
TreeId == Unwrap(widget_tree).tree_id
(* The indices of the nodes created when the widget at `path` was popped. *)
MadeFrom(path) == {i \in 1..Len(made) : made[i] = path}
NodeFrom(path) == CHOOSE i \in MadeFrom(path) : TRUE
ChildIndices(i) == [k \in 1..Len(Nodes[i].children) |-> Nodes[i].children[k].index]

-----------------------------------------------------------------------------
ShiftId(id) == NodeId(id.tree_id, id.index + 1)

(* `tree` with every node moved one index up, under a new root holding x. *)
UnderRoot(x, tree) ==
  [tree_id |-> tree.tree_id,
   root_id |-> NodeId(tree.tree_id, 1),
   nodes |->
     << [data |-> x, parent |-> None, children |-> <<ShiftId(tree.root_id)>>] >>
     \o [i \in 1..Len(tree.nodes) |->
          [data |-> tree.nodes[i].data,
           parent |-> IF IsSome(tree.nodes[i].parent)
                      THEN Some(ShiftId(Unwrap(tree.nodes[i].parent)))
                      ELSE Some(NodeId(tree.tree_id, 1)),
           children |-> [k \in 1..Len(tree.nodes[i].children) |->
                           ShiftId(tree.nodes[i].children[k])]]]]

C2_ChildrenInSplitOrder ==
  pc = "done" =>
    \A p \in Paths(w) :
      WidgetAt(w, p).kind = "MultiChild" =>
        LET cs == SplitMulti(WidgetAt(w, p)).children
        IN  /\ Cardinality(MadeFrom(p)) = 1
            /\ ChildIndices(NodeFrom(p)) =
                 [i \in 1..Len(cs) |-> NodeFrom(Append(p, i))]

(***************************************************************************)
(* C3: inflating EmbedPost at level 3 yields exactly 16 nodes: 4 rows and  *)
(* 12 Text leaves, each row with its 3 Text leaves as direct children and  *)
(* each row but the innermost with the next row as its 4th child.          *)
(***************************************************************************)
IsRowNode(i) == Nodes[i].data = Render(<<"RenderRow">>)
IsTextNode(i) == Nodes[i].data.kind = "Render" /\ Nodes[i].data.render[1] = "Text"

C3_EmbedPostTree ==
  (pc = "done" /\ w = EmbedPost(EmbedLevel)) =>
    LET all == 1..Len(Nodes)
        rows == {i \in all : IsRowNode(i)}
        leaves == {i \in all : IsTextNode(i)}
    IN  /\ Len(Nodes) = 4 * (EmbedLevel + 1)
        /\ Cardinality(rows) = EmbedLevel + 1
        /\ Cardinality(leaves) = 3 * (EmbedLevel + 1)
        /\ \A r \in rows :
             /\ Len(Nodes[r].children) \in {3, 4}
             /\ \A k \in 1..3 : IsTextNode(ChildIndices(r)[k])
             /\ Len(Nodes[r].children) = 4 => IsRowNode(ChildIndices(r)[4])
        /\ Cardinality({r \in rows : Len(Nodes[r].children) = 3}) = 1

(***************************************************************************)
(* C4: a specification of SingleChild widgets nested D deep, ending in a   *)
(* Render leaf, inflates to exactly D+1 nodes in one chain: the root is    *)
(* the outermost widget's render node, every node but the deepest has      *)
(* exactly one child, and the nodes follow the nesting order.              *)
(***************************************************************************)
RECURSIVE IsSingleChain(_)
IsSingleChain(x) ==
  \/ x.kind = "Render"
  \/ x.kind = "SingleChild" /\ IsSingleChain(x.child)

RECURSIVE ChainDepth(_)
ChainDepth(x) == IF x.kind = "SingleChild" THEN 1 + ChainDepth(x.child) ELSE 0

(* The position of the widget nested d deep in a chain. *)
ChainPath(d) == [k \in 1..d |-> 1]

C4_SingleChildChain ==
  (pc = "done" /\ IsSingleChain(w)) =>
    LET D == ChainDepth(w)
    IN  /\ Len(Nodes) = D + 1
        /\ Unwrap(widget_tree).root_id.index = NodeFrom(<<>>)
        /\ \A d \in 0..D :
             LET n == NodeFrom(ChainPath(d))
             IN  /\ Cardinality(MadeFrom(ChainPath(d))) = 1
                 /\ Nodes[n].data = Render(WidgetAt(w, ChainPath(d)).render)
                 /\ ChildIndices(n) =
                      IF d < D THEN <<NodeFrom(ChainPath(d + 1))>> ELSE <<>>
                 /\ Nodes[n].parent =
                      IF d > 0 THEN Some(NodeId(TreeId, NodeFrom(ChainPath(d - 1))))
                      ELSE None

C4_Witness == pc = "done" /\ IsSingleChain(w) /\ ChainDepth(w) >= 3

(***************************************************************************)
(* C6: a MultiChild whose split returns no children, wherever it stands in *)
(* the specification, yields exactly one stored node, that node has no     *)
(* children in the final tree, and no error is raised.                     *)
(***************************************************************************)
C6_EmptyMultiChild ==
  pc \in {"done", "panic"} =>
    /\ panic = ""
    /\ \A p \in Paths(w) :
         (WidgetAt(w, p).kind = "MultiChild" /\ SplitMulti(WidgetAt(w, p)).children = <<>>)
           => /\ Cardinality(MadeFrom(p)) = 1
              /\ Nodes[NodeFrom(p)].children = <<>>

(***************************************************************************)
(* C9: inflate terminates: the work stack becomes empty and the loop       *)
(* exits, every pending widget having been processed exactly once.         *)
(***************************************************************************)
C9_Terminates ==
  <>(/\ pc = "done"
     /\ stack = <<>>
     /\ Len(pops) = Cardinality(Paths(w))
     /\ \A p \in Paths(w) : Count(pops, p) = 1)

C9_Witness ==
  /\ pc = "done"
  /\ stack = <<>>
  /\ Len(pops) >= 4
  /\ \E p \in Paths(w) : WidgetAt(w, p).kind = "Combination"

(***************************************************************************)
(* C10: during one inflate run build() is called exactly once for every    *)
(* Combination popped and split() exactly once for every SingleChild or    *)
(* MultiChild popped; no widget is built or split a second time.           *)
(***************************************************************************)
C10_BuiltAndSplitOnce ==
  /\ \A k \in 1..Len(calls) : calls[k][2] \in Paths(w)
  /\ \A p \in Paths(w) :
       LET kind == WidgetAt(w, p).kind
           builds == Count(calls, <<"build", p>>)
           splits == Count(calls, <<"split", p>>)
           popped == Count(pops, p)
       IN  /\ builds <= 1 /\ splits <= 1
           /\ builds = (IF kind = "Combination" THEN popped ELSE 0)
           /\ splits = (IF kind \in {"SingleChild", "MultiChild"} THEN popped ELSE 0)

C10_Witness ==
  /\ pc = "done"
  /\ \E p, q \in Paths(w) :
       /\ Count(calls, <<"build", p>>) = 1
       /\ Count(calls, <<"split", q>>) = 1
       /\ Len(Sub(WidgetAt(w, q))) >= 2

-----------------------------------------------------------------------------
(***************************************************************************)
(* C5: MultiPair accumulation is associative and order-preserving: after   *)
(* new and any chain of with_child calls the children are the              *)
(* concatenation, in call order, of what each argument supplied, and when  *)
(* every argument was a collection they are the children of                *)
(* MultiPair::new(p, a ++ b ++ ...).                                       *)
(***************************************************************************)
RECURSIVE ConcatSupplied(_)
ConcatSupplied(n) ==
  IF n = 0 THEN <<>> ELSE ConcatSupplied(n - 1) \o into_child_multi(supplied[n])

RECURSIVE ConcatItems(_)
ConcatItems(n) ==
  IF n = 0 THEN <<>> ELSE ConcatItems(n - 1) \o supplied[n].items

C5_WithChildConcatenates ==
  IsSome(pair) =>
    /\ Unwrap(pair).children = ConcatSupplied(Len(supplied))
    /\ (\A k \in 1..Len(supplied) : supplied[k].shape = "iter") =>
         Unwrap(pair).children =
           MultiPairNew("Row", ArgIter(ConcatItems(Len(supplied)))).children

C5_Witness ==
  /\ IsSome(pair)
  /\ Len(supplied) = 3
  /\ \A k \in 1..3 : supplied[k].shape = "iter" /\ Len(supplied[k].items) = 2
  /\ supplied[1].items # supplied[2].items
  /\ Len(Unwrap(pair).children) = 6

(***************************************************************************)
(* C7: with times = n >= 1, after a run of k taps that all have the first  *)
(* tap's pointer type and buttons and all come less than 250 ms after the  *)
(* first tap, the handler has been invoked exactly floor(k / n) times,     *)
(* namely on taps n, 2n, 3n, ...                                           *)
(***************************************************************************)
C7_RapidTapsFireEveryNth ==
  (taps >= 1 /\ rapid) =>
    /\ count = taps \div times
    /\ fired = {k \in 1..taps : k % times = 0}

C7_Witness ==
  /\ rapid
  /\ times = 3
  /\ taps = 6
  /\ count = 2
  /\ now > Unwrap(first_tap).at

(***************************************************************************)
(* C8: with times = n >= 2, if every tap comes 250 ms or more after the    *)
(* tap before it, the handler is never invoked.                            *)
(***************************************************************************)
C8_SpacedTapsNeverFire ==
  (times >= 2 /\ spaced) => count = 0

C8_Witness ==
  /\ spaced
  /\ times = 2
  /\ taps >= 3
  /\ count = 0

-----------------------------------------------------------------------------
(***************************************************************************)
(* C11: a reactive source given as the children argument is consumed       *)
(* exactly once: build_multi() is called one time, and only the collection *)
(* it returns at that moment is appended, in its order, whatever the       *)
(* source holds later.                                                     *)
(***************************************************************************)
(* What the k-th argument has to contribute. *)
Contribution(k) ==
  IF supplied[k].shape = "pipe"
  THEN [i \in 1..Len(supplied[k].value) |-> IntoWidget(supplied[k].value[i])]
  ELSE into_child_multi(supplied[k])

RECURSIVE Contributions(_)
Contributions(n) == IF n = 0 THEN <<>> ELSE Contributions(n - 1) \o Contribution(n)

PipesPassed == {k \in 1..Len(supplied) : supplied[k].shape = "pipe"}

C11_PipeConsumedOnce ==
  /\ build_multi_calls = Cardinality(PipesPassed)
  /\ build_multi_calls <= 1
  /\ IsSome(pair) => Unwrap(pair).children = Contributions(Len(supplied))

C11_Witness ==
  /\ IsSome(pair)
  /\ build_multi_calls = 1
  /\ \E k \in PipesPassed :
       /\ k >= 2
       /\ Len(supplied[k].value) = 2
       /\ supplied[k].value[1] # supplied[k].value[2]
       /\ Unwrap(pipe_now) # supplied[k].value
  /\ Len(Unwrap(pair).children) >= 3

-----------------------------------------------------------------------------
(***************************************************************************)
(* C12: child-shape normalization.  Every call of new / with_child leaves  *)
(* the children accumulated so far in place and adds after them: exactly   *)
(* the one widget, for a single widget argument; one widget per element,   *)
(* in iteration order, for an iterable; nothing, for an empty iterable.    *)
(***************************************************************************)
ChildrenOf(p) == IF IsSome(p) THEN Unwrap(p).children ELSE <<>>

Normalized(before, arg, after) ==
  /\ SubSeq(after, 1, Len(before)) = before
  /\ arg.shape = "widget" => after = Append(before, arg.widget)
  /\ arg.shape = "iter" =>
       /\ Len(after) = Len(before) + Len(arg.items)
       /\ \A i \in 1..Len(arg.items) :
            after[Len(before) + i] =
              (IF arg.items[i] = "Row" THEN Row(<<>>) ELSE Text(arg.items[i]))
       /\ arg.items = <<>> => after = before

C12_ShapesNormalized ==
  [][Len(supplied') = Len(supplied) + 1 =>
       Normalized(ChildrenOf(pair), supplied'[Len(supplied')], ChildrenOf(pair'))]_vars

C12_Witness ==
  /\ Len(supplied) = 3
  /\ supplied[1].shape = "widget"
  /\ supplied[2].shape = "iter"
  /\ Len(supplied[2].items) = 2
  /\ supplied[2].items[1] # supplied[2].items[2]
  /\ supplied[3] = ArgIter(<<>>)
  /\ Len(Unwrap(pair).children) = 3

-----------------------------------------------------------------------------
(***************************************************************************)
(* C13: add_widget(Some(p), w) makes w the first child of p and leaves     *)
(* p's earlier children after it in unchanged order, so the children of p  *)
(* read back in reverse insertion order; add_widget(None, w) installs a    *)
(* new tree whose root is w.                                               *)
(***************************************************************************)
(* The logged call that installed the tree now stored. *)
Installed == CHOOSE n \in 1..Len(added) :
               /\ added[n].id = None
               /\ \A m \in n + 1..Len(added) : added[m].id # None

RECURSIVE InsertedUnder(_, _)
(* The ids returned by the calls made under p, latest first. *)
InsertedUnder(p, n) ==
  IF n = 0 THEN <<>>
  ELSE IF added[n].id = Some(p)
       THEN <<Unwrap(added[n].new_id)>> \o InsertedUnder(p, n - 1)
       ELSE InsertedUnder(p, n - 1)

C13_AddWidgetPrepends ==
  added # <<>> =>
    LET tree == Unwrap(widget_tree)
    IN  /\ added[1].id = None
        /\ tree.root_id = Unwrap(added[Installed].new_id)
        /\ Len(tree.nodes) = Len(added) - Installed + 1
        /\ tree.nodes[tree.root_id.index].parent = None
        /\ tree.nodes[tree.root_id.index].data = added[Installed].w
        /\ \A n \in Installed..Len(added) :
             LET id == Unwrap(added[n].new_id)
             IN  /\ HasNode(tree, id)
                 /\ tree.nodes[id.index].data = added[n].w
                 /\ tree.nodes[id.index].parent = added[n].id
                 /\ tree.nodes[id.index].children = InsertedUnder(id, Len(added))
        /\ \A m, n \in 1..Len(added) : m # n => added[m].new_id # added[n].new_id

C13_Witness ==
  /\ Len(added) = 4
  /\ \A n \in 2..4 : added[n].id = added[1].new_id
  /\ added[2].w # added[3].w
  /\ Len(Unwrap(widget_tree).nodes[1].children) = 3

(* add_widget(None, w) on an Application that already stores a tree. *)
C13_WitnessReplaced ==
  /\ Len(added) = 3
  /\ added[3].id = None
  /\ trees_built = 2

-----------------------------------------------------------------------------
(***************************************************************************)
(* C14: inflate never fails a structural expectation: whenever the loop is *)
(* about to pop, the stack is not empty; whenever a parent id is set, the  *)
(* tree exists and still holds a node with that id, and so does every      *)
(* marker on the stack; no unwrap or expect has fired.                     *)
(***************************************************************************)
Resolves(id) == IsSome(widget_tree) /\ HasNode(Unwrap(widget_tree), id)

C14_NoStructuralPanic ==
  /\ panic = ""
  /\ pc # "panic"
  /\ pc = "loop" => stack # <<>>
  /\ IsSome(node_id) => Resolves(Unwrap(node_id))
  /\ \A i \in 1..Len(stack) : stack[i].tag = "NodeID" => Resolves(stack[i].id)

C14_Witness ==
  /\ pc = "done"
  /\ panic = ""
  /\ Len(pops) = MaxNodes
  /\ \E i \in 1..Len(pops) : Len(pops[i]) >= 2
  /\ Len(Unwrap(widget_tree).nodes) = MaxNodes

-----------------------------------------------------------------------------
(***************************************************************************)
(* C15: within one inflate run add_widget builds a tree exactly once, for  *)
(* the first item popped (the top-level widget); every later widget is     *)
(* popped with a parent id set, a parent id once set is never None again,  *)
(* the stored tree is never replaced, its root stays the node made for the *)
(* top-level widget, and that root is the only node without a parent.      *)
(***************************************************************************)
OneRoot ==
  /\ trees_built = (IF pops = <<>> THEN 0 ELSE 1)
  /\ IsSome(widget_tree) <=> pops # <<>>
  /\ pops # <<>> =>
       LET tree == Unwrap(widget_tree)
       IN  /\ pops[1] = <<>>
           /\ made[1] = <<>>
           /\ tree.tree_id = 1
           /\ tree.root_id = NodeId(1, 1)
           /\ {i \in 1..Len(tree.nodes) : tree.nodes[i].parent = None} = {1}
           /\ (pc = "loop" /\ stack[Len(stack)].tag = "Widget") => IsSome(node_id)

RootKept ==
  /\ IsSome(node_id) => IsSome(node_id')
  /\ IsSome(widget_tree) =>
       /\ IsSome(widget_tree')
       /\ Unwrap(widget_tree').tree_id = Unwrap(widget_tree).tree_id
       /\ Unwrap(widget_tree').root_id = Unwrap(widget_tree).root_id
       /\ Unwrap(widget_tree').nodes[1].data = Unwrap(widget_tree).nodes[1].data
       /\ trees_built' = trees_built

C15_RootCreatedOnce == []OneRoot /\ [][RootKept]_vars

C15_Witness ==
  /\ pc = "done"
  /\ trees_built = 1
  /\ Len(pops) >= 4
  /\ IsSome(node_id)
  /\ Len(Unwrap(widget_tree).nodes) >= 4

-----------------------------------------------------------------------------
(***************************************************************************)
(* C16: consuming a MultiPair is pure bookkeeping.  After any chain of     *)
(* with_child calls the pair, the closure made from it and the composition *)
(* all carry the parent given to MultiPair::new and the accumulated        *)
(* children, unchanged in length and order; composition happens at most    *)
(* once per MultiPair.                                                     *)
(***************************************************************************)
GivenParent == MultiChild(<<"Render" \o given_parent>>, <<>>)

Accumulated == [parent |-> GivenParent, children |-> Contributions(Len(supplied))]

C16_ComposedAsAccumulated ==
  /\ Len(composed) <= 1
  /\ IsSome(pair) => Unwrap(pair) = Accumulated /\ f = None /\ composed = <<>>
  /\ IsSome(f) => Unwrap(f).captured = Accumulated /\ composed = <<>>
  /\ composed # <<>> =>
       /\ composed[1] = Accumulated
       /\ Len(composed[1].children) = Len(Contributions(Len(supplied)))
       /\ pair = None
       /\ f = None

C16_Witness ==
  /\ Len(composed) = 1
  /\ given_parent = "Column"
  /\ Len(supplied) = 3
  /\ supplied[1].shape = "iter"
  /\ Len(composed[1].children) >= 3
  /\ composed[1].children[1] # composed[1].children[2]
  /\ composed[1].parent = Column(<<>>)

-----------------------------------------------------------------------------
(***************************************************************************)
(* C17: the recorded pointer type and buttons are those of the tap before; *)
(* a tap that differs from them in pointer type or buttons never adds to   *)
(* the running count: it restarts the run as tap 1, stamped now, with its  *)
(* own pointer type and buttons, and with n >= 2 the handler does not      *)
(* fire on it.                                                             *)
(***************************************************************************)
RecordedIsLastTap ==
  IsSome(last_tap) =>
    /\ IsSome(tap_info)
    /\ Unwrap(tap_info).pointer_type = Unwrap(last_tap).point_type
    /\ Unwrap(tap_info).mouse_btns = Unwrap(last_tap).mouse_buttons

DiffersFromRecorded ==
  /\ taps' = taps + 1
  /\ IsSome(tap_info)
  /\ \/ Unwrap(last_tap').point_type # Unwrap(tap_info).pointer_type
     \/ Unwrap(last_tap').mouse_buttons # Unwrap(tap_info).mouse_btns

RestartsRun ==
  /\ Unwrap(tap_info').first_tap_stamp = now
  /\ Unwrap(tap_info').pointer_type = Unwrap(last_tap').point_type
  /\ Unwrap(tap_info').mouse_btns = Unwrap(last_tap').mouse_buttons
  /\ times >= 2 => Unwrap(tap_info').tap_times = 1 /\ count' = count /\ fired' = fired
  /\ times = 1 => Unwrap(tap_info').tap_times = 0 /\ count' = count + 1

C17_DifferentPointerRestarts ==
  []RecordedIsLastTap /\ [][DiffersFromRecorded => RestartsRun]_vars

C17_Witness ==
  /\ times = 2
  /\ taps = 2
  /\ Unwrap(first_tap).point_type # Unwrap(last_tap).point_type
  /\ Unwrap(last_tap).at - Unwrap(first_tap).at < DUR
  /\ Unwrap(tap_info).tap_times = 1
  /\ Unwrap(tap_info).first_tap_stamp = Unwrap(last_tap).at
  /\ count = 0

-----------------------------------------------------------------------------
(***************************************************************************)
(* C18: after the handler has fired the count starts afresh.  A tap that   *)
(* is counted as number 1 stamps the run with its own time; and, for       *)
(* n = 2, the two taps after a firing tap, alike in pointer type and       *)
(* buttons and less than DUR apart, make the handler fire again on the     *)
(* second of them.                                                         *)
(***************************************************************************)
StampIsTapOne ==
  (taps' = taps + 1 /\ Unwrap(tap_info').tap_times = 1) =>
    Unwrap(tap_info').first_tap_stamp = now

FiresAgain ==
  (/\ times = 2
   /\ taps' = taps + 1
   /\ taps >= 3
   /\ (taps - 1) \in fired
   /\ Unwrap(last_tap').point_type = Unwrap(last_tap).point_type
   /\ Unwrap(last_tap').mouse_buttons = Unwrap(last_tap).mouse_buttons
   /\ now - Unwrap(last_tap).at < DUR)
  => (taps + 1) \in fired'

C18_CountStartsAfresh == [][StampIsTapOne /\ FiresAgain]_vars

-----------------------------------------------------------------------------
(***************************************************************************)
(* C19: during inflate every widget after the first is inserted under the  *)
(* node made for the widget popped just before it: the marker pushed after *)
(* an insertion is the next item popped and becomes the parent.  So the    *)
(* nodes are made in pop order, each node's parent is the node made just   *)
(* before it, and no node ever has more than one child.                    *)
(***************************************************************************)
LastMade == NodeId(1, Len(Nodes))

C19_InsertedUnderPrevious ==
  /\ made = pops
  /\ Len(Nodes) = Len(pops)
  /\ \A i \in 2..Len(Nodes) : Nodes[i].parent = Some(NodeId(1, i - 1))
  /\ \A i \in 1..Len(Nodes) : Len(Nodes[i].children) <= 1
  /\ (pc = "loop" /\ Nodes # <<>>) =>
       \/ stack[Len(stack)] = ElemNodeID(LastMade)
       \/ stack[Len(stack)].tag = "Widget" /\ node_id = Some(LastMade)
  /\ (pc = "done" /\ Nodes # <<>>) => node_id = Some(LastMade)

C19_Witness ==
  /\ pc = "done"
  /\ w.kind = "MultiChild"
  /\ Len(w.children) >= 2
  /\ w.children[1].kind = "MultiChild"
  /\ Len(Nodes) = MaxNodes
  /\ Nodes[MaxNodes].parent = Some(NodeId(1, MaxNodes - 1))

-----------------------------------------------------------------------------
(***************************************************************************)
(* C20: the work stack's shape.  At every loop-iteration boundary the      *)
(* stack holds at most one NodeID marker, and then as its top element;     *)
(* everything else is a pending widget.  No widget is pending twice or     *)
(* pending after it was popped, none is popped twice, and when the loop    *)
(* exits the stack is empty and every widget of the specification was      *)
(* popped.                                                                 *)
(***************************************************************************)
Markers == {i \in 1..Len(stack) : stack[i].tag = "NodeID"}
Pending == {i \in 1..Len(stack) : stack[i].tag = "Widget"}

C20_StackShape ==
  pc \in {"loop", "done"} =>
    /\ Cardinality(Markers) <= 1
    /\ Markers \subseteq {Len(stack)}
    /\ Markers \cup Pending = 1..Len(stack)
    /\ \A i, j \in Pending : i # j => stack[i].path # stack[j].path
    /\ \A i \in Pending : \A k \in 1..Len(pops) : pops[k] # stack[i].path
    /\ \A k, l \in 1..Len(pops) : k # l => pops[k] # pops[l]
    /\ {pops[k] : k \in 1..Len(pops)} \cup {stack[i].path : i \in Pending} \subseteq Paths(w)
    /\ pc = "done" =>
         /\ stack = <<>>
         /\ {pops[k] : k \in 1..Len(pops)} = Paths(w)

C20_Witness ==
  /\ pc = "loop"
  /\ Cardinality(Pending) >= 2
  /\ Cardinality(Markers) = 1
  /\ Len(pops) >= 2

(* The loop has exited with every widget popped. *)
C20_WitnessDone ==
  /\ pc = "done"
  /\ stack = <<>>
  /\ Len(pops) = MaxNodes
  /\ w.kind = "MultiChild"
  /\ Len(w.children) >= 3

=============================================================================
